---- MODULE Spec2Model ----
(***************************************************************************)
(* The session/room coordination engine of the collaborative editor        *)
(* server (src/server/server.js): the room registry, the Room aggregate,   *)
(* the socket event handlers and the operation reconciler.                 *)
(*                                                                         *)
(* JavaScript values are modelled as follows.  An object is a record; a    *)
(* property that is absent (undefined) is a field absent from the record's *)
(* DOMAIN.  A Map is a function whose DOMAIN is the key set.  The value    *)
(* undefined passed as a whole payload is the record Undefined.  null is   *)
(* the string Null where the code stores a string or null.  Text that the  *)
(* code trims is a sequence of one-character strings.                      *)
(***************************************************************************)
EXTENDS Integers, Sequences, FiniteSets, TLC

VARIABLES
    rooms,        \* const rooms = new Map(): roomId -> Room
    currentRoom,  \* per connection closure variable `currentRoom`
    currentUser,  \* per connection closure variable `currentUser`
    status,       \* per connection: "connected" until its disconnect event
    socketRooms,  \* per connection: the socket.io rooms the socket is in
    now,          \* Date.now()
    emitted,      \* the messages the last handler emitted: [to, event, data]
    last,         \* the last event handled, with its inputs and outcome
    allHistory,   \* history variable: per room, every entry updateCode appended
    allChat,      \* history variable: per room, every message addChatMessage appended
    lastWrite,    \* history variable: per room and file, content of the last
                  \* updateCode applied to the file since it was created
    roomOrder,    \* the keys of `rooms` in insertion order (Map iteration order)
    sweeps,       \* per activation of autoSave: where it is suspended
    disk,         \* the save directory: roomId -> the roomData last written
    written       \* history variable: per roomId, the lastSaved stamps of the
                  \* last two roomData written

vars == <<rooms, currentRoom, currentUser, status, socketRooms, now, emitted,
          last, allHistory, allChat, lastWrite,
         roomOrder, sweeps, disk, written>>

(***************************************************************************)
(* Bounds of the model and constants of the program.                       *)
(***************************************************************************)
\* Date.now() advances from 0 to MaxTime.
MaxTime == 1
\* At most MaxUpdates history entries are appended to one room.
MaxUpdates == 3
\* At most MaxFileUpdates history entries are appended while files come and go.
MaxFileUpdates == 2
\* At most MaxChats chat messages are appended to one room.
MaxChats == 3
\* config.roomHistoryLimit (ROOM_HISTORY_LIMIT, 1000 when not configured).
roomHistoryLimit == 2
\* config.chatMessageLimit (CHAT_MESSAGE_LIMIT, 100 when not configured).
chatMessageLimit == 2
\* room.history.slice(-10) in the code-change handler.
RecentWindow == 10
\* this.chat.slice(-50) in getState: half of the default chat limit, so that
\* a full chat log is longer than the window.
StateChatWindow == 1

Conns == {"c1", "c2"}
RoomIds == {"A", "B"}
MainJs == "main.js"
FileNames == {MainJs, "a.js"}
Contents == {"x", "y"}
\* '' is falsy: the requested name is replaced by the default.
Usernames == {"", "Al"}
Null == "null"
NoWrite == "<no updateCode>"
WelcomeContent == "// Welcome to the collaborative code editor!"
DefaultLanguage == "javascript"
userColors == <<"#FF6B6B", "#4ECDC4", "#45B7D1", "#96CEB4",
                "#FFEAA7", "#DDA0DD", "#98D8C8", "#F7DC6F">>

Undefined == [undef |-> TRUE]
IsUndefined(v) == "undef" \in DOMAIN v
EmptyObject == [k \in {} |-> TRUE]

(***************************************************************************)
(* Helpers for Maps, arrays and strings.                                   *)
(***************************************************************************)
MapSet(m, k, v) == [x \in DOMAIN m \cup {k} |-> IF x = k THEN v ELSE m[x]]
MapDelete(m, k) == [x \in DOMAIN m \ {k} |-> m[x]]
\* Array.prototype.slice(-n) for n > 0
SliceLast(s, n) == IF Len(s) > n THEN SubSeq(s, Len(s) - n + 1, Len(s)) ELSE s
\* {...a, ...b}: b's properties win
Spread(a, b) == [k \in DOMAIN a \cup DOMAIN b |-> IF k \in DOMAIN b THEN b[k] ELSE a[k]]
IsSpace(ch) == ch = " "
RECURSIVE TrimStart(_)
TrimStart(s) == IF s # <<>> /\ IsSpace(Head(s)) THEN TrimStart(Tail(s)) ELSE s
RECURSIVE TrimEnd(_)
TrimEnd(s) ==
    IF s # <<>> /\ IsSpace(s[Len(s)]) THEN TrimEnd(SubSeq(s, 1, Len(s) - 1)) ELSE s
\* String.prototype.trim
Trim(s) == TrimEnd(TrimStart(s))

(***************************************************************************)
(* class Room                                                              *)
(***************************************************************************)
NewRoom(id, t) ==
    [id |-> id,
     code |-> "",
     users |-> EmptyObject,
     cursors |-> EmptyObject,
     history |-> <<>>,
     files |-> (MainJs :> [name |-> MainJs, content |-> WelcomeContent,
                           language |-> DefaultLanguage]),
     activeFile |-> MainJs,
     chat |-> <<>>,
     lastSaved |-> t]

UsersSize(room) == Cardinality(DOMAIN room.users)

\* the user object addUser builds and returns
\* Variant of NewUser with a seeded fault: the color index counts the new user.
NewUserNextColor(room, socketId, username) ==
    [id |-> socketId,
     username |-> IF username # "" THEN username
                  ELSE "User" \o ToString(UsersSize(room) + 1),
     color |-> userColors[((UsersSize(room) + 1) % Len(userColors)) + 1]]

NewUser(room, socketId, username) ==
    [id |-> socketId,
     username |-> IF username # "" THEN username
                  ELSE "User" \o ToString(UsersSize(room) + 1),
     color |-> userColors[(UsersSize(room) % Len(userColors)) + 1]]

addUser(room, socketId, username) ==
    [room EXCEPT !.users = MapSet(@, socketId, NewUser(room, socketId, username))]

\* Variant of removeUser with a seeded fault: the cursor of the user is kept.
removeUserKeepsCursor(room, socketId) ==
    [room EXCEPT !.users = MapDelete(@, socketId)]

\* Variant of removeUser with a seeded fault: every cursor of the room goes.
removeUserClearsCursors(room, socketId) ==
    [room EXCEPT !.users = MapDelete(@, socketId), !.cursors = EmptyObject]

removeUser(room, socketId) ==
    [room EXCEPT !.users = MapDelete(@, socketId),
                 !.cursors = MapDelete(@, socketId)]

HistoryEntry(room, content, operation, t) ==
    [timestamp |-> t, operation |-> operation, content |-> content,
     file |-> room.activeFile]

\* Variants of updateCode with a seeded fault, against which the properties are tried:
\* the history keeps its oldest entries; the content goes to main.js whatever is active.
updateCodeKeepOldest(room, content, operation, t) ==
    IF room.activeFile \in DOMAIN room.files
    THEN [room EXCEPT
            !.files[room.activeFile].content = content,
            !.history = LET h == Append(@, HistoryEntry(room, content, operation, t))
                        IN IF Len(h) > roomHistoryLimit
                           THEN SubSeq(h, 1, roomHistoryLimit) ELSE h]
    ELSE room

updateCodeMainOnly(room, content, operation, t) ==
    [room EXCEPT
        !.files[MainJs].content = content,
        !.history = SliceLast(Append(@, HistoryEntry(room, content, operation, t)),
                              roomHistoryLimit)]

\* Variant of updateCode with a seeded fault: the new entry is put in front.
updateCodePrepends(room, content, operation, t) ==
    IF room.activeFile \in DOMAIN room.files
    THEN [room EXCEPT
            !.files[room.activeFile].content = content,
            !.history = LET h == <<HistoryEntry(room, content, operation, t)>> \o @
                        IN IF Len(h) > roomHistoryLimit
                           THEN SliceLast(h, roomHistoryLimit) ELSE h]
    ELSE room

updateCode(room, content, operation, t) ==
    IF room.activeFile \in DOMAIN room.files
    THEN [room EXCEPT
            !.files[room.activeFile].content = content,
            !.history = LET h == Append(@, HistoryEntry(room, content, operation, t))
                        IN IF Len(h) > roomHistoryLimit
                           THEN SliceLast(h, roomHistoryLimit) ELSE h]
    ELSE room

\* Variant of updateCursor with a seeded fault: the fields of the payload win
\* over the stamps.
updateCursorPayloadWins(room, socketId, cursor, t) ==
    [room EXCEPT !.cursors =
        MapSet(@, socketId, Spread([userId |-> socketId, timestamp |-> t], cursor))]

updateCursor(room, socketId, cursor, t) ==
    [room EXCEPT !.cursors =
        MapSet(@, socketId, Spread(cursor, [userId |-> socketId, timestamp |-> t]))]

\* Variant of addChatMessage with a seeded fault: the log is never truncated.
addChatMessageNoLimit(room, message, t) ==
    [room EXCEPT !.chat = Append(@, Spread(message, [timestamp |-> t]))]

addChatMessage(room, message, t) ==
    [room EXCEPT !.chat =
        LET ch == Append(@, Spread(message, [timestamp |-> t]))
        IN IF Len(ch) > chatMessageLimit THEN SliceLast(ch, chatMessageLimit) ELSE ch]

\* switchFile returns the file, or null on a miss
switchFileFound(room, fileName) == fileName \in DOMAIN room.files

\* Variant of switchFile with a seeded fault: any name becomes the active file.
switchFileAny(room, fileName) == [room EXCEPT !.activeFile = fileName]

switchFile(room, fileName) ==
    IF fileName \in DOMAIN room.files
    THEN [room EXCEPT !.activeFile = fileName]
    ELSE room

\* createFile returns the file, or null when the name is present
\* Variant of createFileCreated with a seeded fault: a file is always returned.
createFileCreatedAlways(room, fileName) == TRUE

createFileCreated(room, fileName) == fileName \notin DOMAIN room.files

\* Variant of createFile with a seeded fault: a present file is replaced.
createFileOverwrites(room, fileName, content, language) ==
    [room EXCEPT !.files =
        MapSet(@, fileName,
               [name |-> fileName, content |-> content, language |-> language])]

createFile(room, fileName, content, language) ==
    IF fileName \notin DOMAIN room.files
    THEN [room EXCEPT !.files =
            MapSet(@, fileName,
                   [name |-> fileName, content |-> content, language |-> language])]
    ELSE room

\* the boolean deleteFile returns
deleteFileResult(room, fileName) ==
    fileName # MainJs /\ fileName \in DOMAIN room.files

\* Variants of deleteFile with a seeded fault: main.js is deleted like any file;
\* a rejected delete of main.js makes it the active file; every delete resets the
\* active file; the active file is not reset.
deleteFileAny(room, fileName) ==
    IF fileName \in DOMAIN room.files
    THEN [room EXCEPT !.files = MapDelete(@, fileName),
                      !.activeFile = IF @ = fileName THEN MainJs ELSE @]
    ELSE room

deleteFileMainResets(room, fileName) ==
    IF fileName = MainJs THEN [room EXCEPT !.activeFile = MainJs]
    ELSE IF fileName \in DOMAIN room.files
    THEN [room EXCEPT !.files = MapDelete(@, fileName),
                      !.activeFile = IF @ = fileName THEN MainJs ELSE @]
    ELSE room

deleteFileAlwaysResets(room, fileName) ==
    IF fileName # MainJs /\ fileName \in DOMAIN room.files
    THEN [room EXCEPT !.files = MapDelete(@, fileName), !.activeFile = MainJs]
    ELSE room

deleteFileKeepActive(room, fileName) ==
    IF fileName # MainJs /\ fileName \in DOMAIN room.files
    THEN [room EXCEPT !.files = MapDelete(@, fileName)]
    ELSE room

deleteFile(room, fileName) ==
    IF fileName # MainJs /\ fileName \in DOMAIN room.files
    THEN [room EXCEPT !.files = MapDelete(@, fileName),
                      !.activeFile = IF @ = fileName THEN MainJs ELSE @]
    ELSE room

\* Variant of getState with a seeded fault: the whole chat log is returned.
getStateAllChat(room) ==
    [roomId |-> room.id,
     code |-> IF room.activeFile \in DOMAIN room.files
              THEN room.files[room.activeFile].content ELSE "",
     activeFile |-> room.activeFile,
     files |-> room.files,
     users |-> room.users,
     cursors |-> room.cursors,
     chat |-> room.chat]

getState(room) ==
    [roomId |-> room.id,
     code |-> IF room.activeFile \in DOMAIN room.files
              THEN room.files[room.activeFile].content ELSE "",
     activeFile |-> room.activeFile,
     files |-> room.files,
     users |-> room.users,
     cursors |-> room.cursors,
     chat |-> SliceLast(room.chat, StateChatWindow)]

(***************************************************************************)
(* Utility functions                                                       *)
(***************************************************************************)
\* Variant of getOrCreateRoom with a seeded fault: a new Room is stored for
\* every id, known or not.
getOrCreateRoomAlwaysNew(reg, roomId, t) == MapSet(reg, roomId, NewRoom(roomId, t))

\* the registry after getOrCreateRoom(roomId)
getOrCreateRoom(reg, roomId, t) ==
    IF roomId \notin DOMAIN reg THEN MapSet(reg, roomId, NewRoom(roomId, t)) ELSE reg

Min(a, b) == IF a < b THEN a ELSE b
Has(o, f) == f \in DOMAIN o
\* otherOp.timestamp < op.timestamp; a comparison with undefined is false
TimestampBefore(otherOp, op) ==
    Has(otherOp, "timestamp") /\ Has(op, "timestamp") /\ otherOp.timestamp < op.timestamp

\* Variants of TransformStep with a seeded fault: an insert at the very position
\* does not shift; a delete subtracts its whole length.
TransformStepStrictInsert(op, transformedOp, otherOp) ==
    IF TimestampBefore(otherOp, op)
    THEN IF otherOp.type = "insert" /\ otherOp.position < transformedOp.position
         THEN [transformedOp EXCEPT !.position = @ + Len(otherOp.text)]
         ELSE IF otherOp.type = "delete" /\ otherOp.position < transformedOp.position
              THEN [transformedOp EXCEPT !.position =
                        @ - Min(otherOp.length, @ - otherOp.position)]
              ELSE transformedOp
    ELSE transformedOp

TransformStepUnclamped(op, transformedOp, otherOp) ==
    IF TimestampBefore(otherOp, op)
    THEN IF otherOp.type = "insert" /\ otherOp.position <= transformedOp.position
         THEN [transformedOp EXCEPT !.position = @ + Len(otherOp.text)]
         ELSE IF otherOp.type = "delete" /\ otherOp.position < transformedOp.position
              THEN [transformedOp EXCEPT !.position = @ - otherOp.length]
              ELSE transformedOp
    ELSE transformedOp

\* one iteration of the loop of transformOperation
TransformStep(op, transformedOp, otherOp) ==
    IF TimestampBefore(otherOp, op)
    THEN IF /\ Has(otherOp, "type") /\ otherOp.type = "insert"
            /\ Has(otherOp, "position") /\ Has(transformedOp, "position")
            /\ otherOp.position <= transformedOp.position
         THEN [transformedOp EXCEPT !.position = @ + Len(otherOp.text)]
         ELSE IF /\ Has(otherOp, "type") /\ otherOp.type = "delete"
                 /\ Has(otherOp, "position") /\ Has(transformedOp, "position")
                 /\ otherOp.position < transformedOp.position
              THEN [transformedOp EXCEPT !.position =
                        @ - Min(otherOp.length, @ - otherOp.position)]
              ELSE transformedOp
    ELSE transformedOp

RECURSIVE TransformLoop(_, _, _)
TransformLoop(op, transformedOp, otherOps) ==
    IF otherOps = <<>> THEN transformedOp
    ELSE TransformLoop(op, TransformStep(op, transformedOp, Head(otherOps)),
                       Tail(otherOps))

\* op.timestamp is read in the first iteration: a TypeError when op is undefined
transformOperationThrows(op, otherOps) == IsUndefined(op) /\ otherOps # <<>>

\* { ...op } of undefined is {}
transformOperation(op, otherOps) ==
    TransformLoop(op, IF IsUndefined(op) THEN EmptyObject ELSE op, otherOps)

(***************************************************************************)
(* Socket.IO: io.on('connection', socket => ...)                           *)
(***************************************************************************)
\* socket.to(roomId): every socket in the socket.io room but the sender
Others(c, roomId) == {d \in DOMAIN socketRooms \ {c} : roomId \in socketRooms[d]}
\* io.to(roomId): every socket in the socket.io room
Everyone(roomId) == {d \in DOMAIN socketRooms : roomId \in socketRooms[d]}
Emit(targets, event, data) == {[to |-> d, event |-> event, data |-> data] : d \in targets}

\* if (!currentRoom) return; const room = rooms.get(currentRoom); if (!room) return;
HasRoom(c) == currentRoom[c] # Null /\ currentRoom[c] \in DOMAIN rooms

\* for (const [roomId, room] of rooms) iterates the live Map: a key set during
\* the loop is visited at the end, a key deleted before its turn is not visited
SweepIds == {"s1", "s2"}
Idle == [pc |-> "idle"]
Without(seq, x) == SelectSeq(seq, LAMBDA y : y # x)

SweepsOnInsert(sw, roomId) ==
    [s \in DOMAIN sw |->
        IF sw[s].pc = "write"
        THEN [sw[s] EXCEPT !.remaining = Append(@, roomId)]
        ELSE sw[s]]

\* `room` of a suspended activation still names the Room taken off the registry
SweepsOnDelete(sw, roomId) ==
    [s \in DOMAIN sw |->
        IF sw[s].pc = "write"
        THEN [sw[s] EXCEPT !.remaining = Without(@, roomId),
                           !.detached = @ \/ sw[s].room = roomId]
        ELSE sw[s]]

UNCHANGED_GHOST == UNCHANGED <<allHistory, allChat, lastWrite>>
UNCHANGED_SAVER == UNCHANGED <<roomOrder, sweeps, disk, written>>
\* a handler that neither joins nor leaves: the closure state, the clock, the
\* order of the registry and autoSave are left alone
UNCHANGED_SESSION ==
    /\ UNCHANGED <<currentRoom, currentUser, status, socketRooms, now>>
    /\ UNCHANGED_SAVER

\* Variant of NoEffect with a seeded fault: every connection is told.
NoEffectTellsAll(c, event, outcome) ==
    /\ last' = [event |-> event, conn |-> c, outcome |-> outcome]
    /\ emitted' = Emit(Conns, "error", [message |-> "Not in a room"])
    /\ UNCHANGED <<rooms, currentRoom, currentUser, status, socketRooms, now>>
    /\ UNCHANGED_GHOST
    /\ UNCHANGED_SAVER

\* a handler that returns at its guard, or that throws before it changes anything
NoEffect(c, event, outcome) ==
    /\ last' = [event |-> event, conn |-> c, outcome |-> outcome]
    /\ emitted' = {}
    /\ UNCHANGED <<rooms, currentRoom, currentUser, status, socketRooms, now>>
    /\ UNCHANGED_GHOST
    /\ UNCHANGED_SAVER

\* socket.on('join-room', ({ roomId, username }) => ...)
JoinRoom(c, roomId, username) ==
    LET reg == getOrCreateRoom(rooms, roomId, now)
        user == NewUser(reg[roomId], c, username)
        fresh == roomId \notin DOMAIN rooms
    IN /\ status[c] = "connected"
       /\ rooms' = [reg EXCEPT ![roomId] = addUser(@, c, username)]
       /\ currentRoom' = [currentRoom EXCEPT ![c] = roomId]
       /\ currentUser' = [currentUser EXCEPT ![c] = user]
       \* if (currentRoom) socket.leave(currentRoom); ... socket.join(roomId)
       /\ socketRooms' = [socketRooms EXCEPT ![c] = (@ \ {currentRoom[c]}) \cup {roomId}]
       /\ emitted' = Emit({c}, "room-state", getState(rooms'[roomId]))
                     \cup Emit(Others(c, roomId), "user-joined", user)
       /\ last' = [event |-> "join-room", conn |-> c, outcome |-> "ok",
                   roomId |-> roomId, username |-> username]
       /\ allHistory' = IF fresh THEN MapSet(allHistory, roomId, <<>>) ELSE allHistory
       /\ allChat' = IF fresh THEN MapSet(allChat, roomId, <<>>) ELSE allChat
       /\ lastWrite' = IF fresh THEN MapSet(lastWrite, roomId, (MainJs :> NoWrite))
                       ELSE lastWrite
       /\ roomOrder' = IF fresh THEN Append(roomOrder, roomId) ELSE roomOrder
       /\ sweeps' = IF fresh THEN SweepsOnInsert(sweeps, roomId) ELSE sweeps
       /\ UNCHANGED <<status, now, disk, written>>

\* socket.on('code-change', ({ content, operation }) => ...)
CodeChange(c, content, operation) ==
    /\ status[c] = "connected"
    /\ IF ~HasRoom(c) THEN NoEffect(c, "code-change", "ignored")
       ELSE LET r == currentRoom[c]
                room == rooms[r]
                recentOps == SliceLast(room.history, RecentWindow)
            IN IF transformOperationThrows(operation, recentOps)
               THEN /\ last' = [event |-> "code-change", conn |-> c,
                                outcome |-> "throw", content |-> content,
                                operation |-> operation]
                    /\ emitted' = {}
                    /\ UNCHANGED <<rooms, currentRoom, currentUser, status,
                                   socketRooms, now>>
                    /\ UNCHANGED_GHOST
                    /\ UNCHANGED_SAVER
               ELSE LET transformedOp == transformOperation(operation, recentOps)
                        stored == Spread(transformedOp,
                                         [userId |-> c,
                                          username |-> currentUser[c].username])
                        applied == room.activeFile \in DOMAIN room.files
                    IN /\ rooms' = [rooms EXCEPT ![r] = updateCode(@, content, stored, now)]
                       /\ emitted' = Emit(Others(c, r), "code-update",
                                          [content |-> content,
                                           operation |-> transformedOp,
                                           user |-> currentUser[c]])
                       /\ last' = [event |-> "code-change", conn |-> c,
                                   outcome |-> "ok", content |-> content,
                                   operation |-> operation]
                       /\ allHistory' =
                            IF applied
                            THEN [allHistory EXCEPT ![r] =
                                    Append(@, HistoryEntry(room, content, stored, now))]
                            ELSE allHistory
                       /\ lastWrite' =
                            IF applied
                            THEN [lastWrite EXCEPT ![r][room.activeFile] = content]
                            ELSE lastWrite
                       /\ UNCHANGED allChat
                       /\ UNCHANGED_SESSION

\* Variant of the cursor-change handler with a seeded fault: the cursor is
\* stored in every room of the registry.
CursorChangeAllRooms(c, cursor) ==
    /\ status[c] = "connected"
    /\ IF ~HasRoom(c) THEN NoEffect(c, "cursor-change", "ignored")
       ELSE LET r == currentRoom[c]
            IN /\ rooms' = [q \in DOMAIN rooms |-> updateCursor(rooms[q], c, cursor, now)]
               /\ emitted' = Emit(Others(c, r), "cursor-update",
                                  [userId |-> c,
                                   username |-> currentUser[c].username,
                                   color |-> currentUser[c].color,
                                   cursor |-> cursor])
               /\ last' = [event |-> "cursor-change", conn |-> c, outcome |-> "ok"]
               /\ UNCHANGED_SESSION
               /\ UNCHANGED_GHOST

\* socket.on('cursor-change', cursor => ...)
CursorChange(c, cursor) ==
    /\ status[c] = "connected"
    /\ IF ~HasRoom(c) THEN NoEffect(c, "cursor-change", "ignored")
       ELSE LET r == currentRoom[c]
            IN /\ rooms' = [rooms EXCEPT ![r] = updateCursor(@, c, cursor, now)]
               /\ emitted' = Emit(Others(c, r), "cursor-update",
                                  [userId |-> c,
                                   username |-> currentUser[c].username,
                                   color |-> currentUser[c].color,
                                   cursor |-> cursor])
               /\ last' = [event |-> "cursor-change", conn |-> c, outcome |-> "ok"]
               /\ UNCHANGED_SESSION
               /\ UNCHANGED_GHOST

\* socket.on('switch-file', fileName => ...)
\* The payload of active-file-changed, a bare string, is wrapped in a record.
SwitchFile(c, fileName) ==
    /\ status[c] = "connected"
    /\ IF ~HasRoom(c) THEN NoEffect(c, "switch-file", "ignored")
       ELSE LET r == currentRoom[c]
                found == switchFileFound(rooms[r], fileName)
            IN /\ rooms' = [rooms EXCEPT ![r] = switchFile(@, fileName)]
               /\ emitted' =
                    IF found
                    THEN Emit({c}, "file-switched",
                              [fileName |-> fileName,
                               content |-> rooms[r].files[fileName].content,
                               language |-> rooms[r].files[fileName].language])
                         \cup Emit(Others(c, r), "active-file-changed",
                                   [fileName |-> fileName])
                    ELSE {}
               /\ last' = [event |-> "switch-file", conn |-> c, outcome |-> "ok",
                           fileName |-> fileName, found |-> found]
               /\ UNCHANGED_SESSION
               /\ UNCHANGED_GHOST

\* a default parameter value replaces an argument that is undefined
UndefinedArg == "undefined"
DefaultArg(arg, default) == IF arg = UndefinedArg THEN default ELSE arg

\* socket.on('create-file', ({ fileName, language }) => ...)
CreateFile(c, fileName, language) ==
    /\ status[c] = "connected"
    /\ IF ~HasRoom(c) THEN NoEffect(c, "create-file", "ignored")
       ELSE LET r == currentRoom[c]
                created == createFileCreated(rooms[r], fileName)
            IN /\ rooms' = [rooms EXCEPT ![r] =
                              createFile(@, fileName, "",
                                         DefaultArg(language, DefaultLanguage))]
               /\ emitted' =
                    IF created
                    THEN Emit(Everyone(r), "file-created", rooms'[r].files[fileName])
                    ELSE Emit({c}, "error",
                              [message |-> "File already exists or invalid name"])
               /\ last' = [event |-> "create-file", conn |-> c, outcome |-> "ok",
                           fileName |-> fileName, created |-> created,
                           language |-> language]
               /\ lastWrite' = IF created
                               THEN [lastWrite EXCEPT ![r] = MapSet(@, fileName, NoWrite)]
                               ELSE lastWrite
               /\ UNCHANGED <<allHistory, allChat>>
               /\ UNCHANGED_SESSION

\* socket.on('delete-file', fileName => ...)
DeleteFile(c, fileName) ==
    /\ status[c] = "connected"
    /\ IF ~HasRoom(c) THEN NoEffect(c, "delete-file", "ignored")
       ELSE LET r == currentRoom[c]
                result == deleteFileResult(rooms[r], fileName)
            IN /\ rooms' = [rooms EXCEPT ![r] = deleteFile(@, fileName)]
               /\ emitted' =
                    IF result
                    THEN Emit(Everyone(r), "file-deleted",
                              [fileName |-> fileName,
                               newActiveFile |-> rooms'[r].activeFile])
                    ELSE {}
               /\ last' = [event |-> "delete-file", conn |-> c, outcome |-> "ok",
                           fileName |-> fileName, result |-> result,
                           active |-> rooms[r].activeFile]
               /\ lastWrite' = IF result
                               THEN [lastWrite EXCEPT ![r] = MapDelete(@, fileName)]
                               ELSE lastWrite
               /\ UNCHANGED <<allHistory, allChat>>
               /\ UNCHANGED_SESSION

\* A chat-message payload is a string, [kind |-> "string", text |-> characters],
\* or an object, [kind |-> "object", message |-> characters].
\* message.trim() of an object is a TypeError: an object has no trim method.
ChatMessageThrows(payload) == payload.kind # "string"

\* socket.on('chat-message', message => ...)
ChatMessage(c, payload) ==
    /\ status[c] = "connected"
    /\ IF ~HasRoom(c) \/ IsUndefined(currentUser[c])
       THEN NoEffect(c, "chat-message", "ignored")
       ELSE IF ChatMessageThrows(payload)
       THEN NoEffect(c, "chat-message", "throw")
       ELSE LET r == currentRoom[c]
                chatMessage == [id |-> ToString(now) \o c,
                                userId |-> c,
                                username |-> currentUser[c].username,
                                color |-> currentUser[c].color,
                                message |-> Trim(payload.text)]
            IN /\ rooms' = [rooms EXCEPT ![r] = addChatMessage(@, chatMessage, now)]
               /\ emitted' = Emit(Everyone(r), "chat-message", chatMessage)
               /\ last' = [event |-> "chat-message", conn |-> c, outcome |-> "ok"]
               /\ allChat' = [allChat EXCEPT ![r] =
                                Append(@, Spread(chatMessage, [timestamp |-> now]))]
               /\ UNCHANGED <<allHistory, lastWrite>>
               /\ UNCHANGED_SESSION

\* a || b on numbers: b when a is undefined (absent) or 0
OrElse(o, f, default) == IF Has(o, f) /\ o[f] # 0 THEN o[f] ELSE default

\* socket.on('get-replay'); data has fromTimestamp and toTimestamp, each optional
GetReplay(c, data) ==
    /\ status[c] = "connected"
    /\ IF ~HasRoom(c) THEN NoEffect(c, "get-replay", "ignored")
       ELSE LET r == currentRoom[c]
                from == OrElse(data, "fromTimestamp", 0)
                to == OrElse(data, "toTimestamp", now)
                InWindow(op) == op.timestamp >= from /\ op.timestamp <= to
                replayData == SelectSeq(rooms[r].history, InWindow)
            IN /\ emitted' = Emit({c}, "replay-data", [entries |-> replayData])
               /\ last' = [event |-> "get-replay", conn |-> c, outcome |-> "ok",
                           data |-> data]
               /\ UNCHANGED rooms
               /\ UNCHANGED_SESSION
               /\ UNCHANGED_GHOST

\* Variant of the disconnect handler with a seeded fault: an empty room is kept.
DisconnectKeepsRoom(c) ==
    /\ status[c] = "connected"
    /\ status' = [status EXCEPT ![c] = "disconnected"]
    /\ socketRooms' = [socketRooms EXCEPT ![c] = {}]
    /\ last' = [event |-> "disconnect", conn |-> c, outcome |-> "ok"]
    /\ IF HasRoom(c) /\ ~IsUndefined(currentUser[c])
       THEN LET r == currentRoom[c]
            IN /\ emitted' = Emit(Others(c, r), "user-left",
                                  [userId |-> c, username |-> currentUser[c].username])
               /\ rooms' = [rooms EXCEPT ![r] = removeUser(@, c)]
       ELSE /\ emitted' = {}
            /\ UNCHANGED rooms
    /\ UNCHANGED <<currentRoom, currentUser, now>>
    /\ UNCHANGED_GHOST
    /\ UNCHANGED_SAVER

\* socket.on('disconnect', () => ...); the socket has left its socket.io rooms
Disconnect(c) ==
    /\ status[c] = "connected"
    /\ status' = [status EXCEPT ![c] = "disconnected"]
    /\ socketRooms' = [socketRooms EXCEPT ![c] = {}]
    /\ last' = [event |-> "disconnect", conn |-> c, outcome |-> "ok"]
    /\ IF HasRoom(c) /\ ~IsUndefined(currentUser[c])
       THEN LET r == currentRoom[c]
                room == removeUser(rooms[r], c)
                empty == UsersSize(room) = 0
            IN /\ emitted' = Emit(Others(c, r), "user-left",
                                  [userId |-> c, username |-> currentUser[c].username])
               /\ rooms' = IF empty THEN MapDelete(rooms, r)
                           ELSE [rooms EXCEPT ![r] = room]
               /\ allHistory' = IF empty THEN MapDelete(allHistory, r) ELSE allHistory
               /\ allChat' = IF empty THEN MapDelete(allChat, r) ELSE allChat
               /\ lastWrite' = IF empty THEN MapDelete(lastWrite, r) ELSE lastWrite
               /\ roomOrder' = IF empty THEN Without(roomOrder, r) ELSE roomOrder
               /\ sweeps' = IF empty THEN SweepsOnDelete(sweeps, r) ELSE sweeps
       ELSE /\ emitted' = {}
            /\ UNCHANGED <<rooms, roomOrder, sweeps>>
            /\ UNCHANGED_GHOST
    /\ UNCHANGED <<currentRoom, currentUser, now, disk, written>>

\* time passes between two events
TickTo(n) ==
    /\ now < n
    /\ now' = now + 1
    /\ UNCHANGED <<rooms, currentRoom, currentUser, status, socketRooms, emitted,
                   last, allHistory, allChat, lastWrite>>
    /\ UNCHANGED_SAVER

Tick == TickTo(MaxTime)

(***************************************************************************)
(* The earlier draft of the server (part_000): updateCode takes the name   *)
(* of the file, and code-change may name it in operation.fileName.         *)
(***************************************************************************)
\* `this.history.length > 1000`, scaled like roomHistoryLimit
draftHistoryLimit == 2

HistoryEntryDraft(fileName, content, t) ==
    [timestamp |-> t, content |-> content, fileName |-> fileName]

\* Variant of updateCodeDraft with a seeded fault: a missing file is created.
updateCodeDraftCreates(room, fileName, content, t) ==
    [room EXCEPT
        !.files = MapSet(@, fileName,
                         IF fileName \in DOMAIN @
                         THEN [@[fileName] EXCEPT !.content = content]
                         ELSE [name |-> fileName, content |-> content,
                               language |-> DefaultLanguage]),
        !.history = LET h == Append(@, HistoryEntryDraft(fileName, content, t))
                    IN IF Len(h) > draftHistoryLimit
                       THEN SliceLast(h, draftHistoryLimit) ELSE h]

updateCodeDraft(room, fileName, content, t) ==
    IF fileName \in DOMAIN room.files
    THEN [room EXCEPT
            !.files[fileName].content = content,
            !.history = LET h == Append(@, HistoryEntryDraft(fileName, content, t))
                        IN IF Len(h) > draftHistoryLimit
                           THEN SliceLast(h, draftHistoryLimit) ELSE h]
    ELSE room

\* operation?.fileName || room.activeFile
DraftFileName(operation, room) ==
    IF Has(operation, "fileName") /\ operation.fileName # ""
    THEN operation.fileName ELSE room.activeFile

\* socket.on('code-change') of the draft
CodeChangeDraft(c, content, operation) ==
    /\ status[c] = "connected"
    /\ IF ~HasRoom(c) THEN NoEffect(c, "code-change", "ignored")
       ELSE LET r == currentRoom[c]
                room == rooms[r]
                fileName == DraftFileName(operation, room)
                applied == fileName \in DOMAIN room.files
            IN /\ rooms' = [rooms EXCEPT ![r] = updateCodeDraft(@, fileName, content, now)]
               /\ emitted' = Emit(Others(c, r), "code-update",
                                  [content |-> content, fileName |-> fileName,
                                   user |-> currentUser[c]])
               /\ last' = [event |-> "code-change", conn |-> c, outcome |-> "ok",
                           content |-> content, operation |-> operation,
                           fileName |-> fileName, applied |-> applied]
               /\ allHistory' =
                    IF applied
                    THEN [allHistory EXCEPT ![r] =
                            Append(@, HistoryEntryDraft(fileName, content, now))]
                    ELSE allHistory
               /\ lastWrite' =
                    IF applied THEN [lastWrite EXCEPT ![r][fileName] = content]
                    ELSE lastWrite
               /\ UNCHANGED allChat
               /\ UNCHANGED_SESSION

(***************************************************************************)
(* autoSave, run by setInterval.  An activation is suspended at             *)
(* `await fs.mkdir` and at each `await fs.writeFile`; what lies between two *)
(* awaits runs as one step.                                                *)
(***************************************************************************)
\* 5 * 60 * 1000 ms, in ticks of the clock
StaleThreshold == 1

\* Variant of IsStale with a seeded fault: stale already at the threshold.
IsStaleAtThreshold(room, t) == t - room.lastSaved >= StaleThreshold

IsStale(room, t) == t - room.lastSaved > StaleThreshold

roomData(roomId, room, t) ==
    [id |-> roomId, files |-> room.files, activeFile |-> room.activeFile,
     lastSaved |-> t, userCount |-> UsersSize(room)]

\* Variant of MarkSaved with a seeded fault: the saved room is unloaded.
MarkSavedAndUnload(reg, roomId, t) == MapDelete(reg, roomId)

\* room.lastSaved = Date.now()
MarkSaved(reg, roomId, t) == [reg EXCEPT ![roomId].lastSaved = t]

\* index of the first stale room among the keys still to visit, 0 if none
RECURSIVE FirstStale(_, _, _, _)
FirstStale(reg, keys, t, i) ==
    IF i > Len(keys) THEN 0
    ELSE IF IsStale(reg[keys[i]], t) THEN i
    ELSE FirstStale(reg, keys, t, i + 1)

\* the for-loop from the keys still to visit up to its next await, or its end
LoopFrom(reg, keys, t) ==
    LET i == FirstStale(reg, keys, t, 1)
    IN IF i = 0 THEN Idle
       ELSE [pc |-> "write", room |-> keys[i],
             remaining |-> SubSeq(keys, i + 1, Len(keys)),
             data |-> roomData(keys[i], reg[keys[i]], t),
             detached |-> FALSE]

\* the timer fires: autoSave runs up to `await fs.mkdir`
autoSave(s) ==
    /\ sweeps[s].pc = "idle"
    /\ sweeps' = [sweeps EXCEPT ![s] = [pc |-> "mkdir"]]
    /\ UNCHANGED <<rooms, currentRoom, currentUser, status, socketRooms, now,
                   emitted, last, roomOrder, disk, written>>
    /\ UNCHANGED_GHOST

\* fs.mkdir settles: the loop starts, or the rejection is caught and logged
MkdirDone(s, ok) ==
    /\ sweeps[s].pc = "mkdir"
    /\ sweeps' = [sweeps EXCEPT ![s] =
                     IF ok THEN LoopFrom(rooms, roomOrder, now) ELSE Idle]
    /\ UNCHANGED <<rooms, currentRoom, currentUser, status, socketRooms, now,
                   emitted, last, roomOrder, disk, written>>
    /\ UNCHANGED_GHOST

\* Variant of WriteDone with a seeded fault: the snapshot is made from the
\* room as it is when the write settles.
WriteDoneLateImage(s, ok) ==
    LET sw == sweeps[s]
        data == IF sw.room \in DOMAIN rooms
                THEN roomData(sw.room, rooms[sw.room], sw.data.lastSaved)
                ELSE sw.data
    IN /\ sw.pc = "write"
       /\ IF ok
          THEN /\ disk' = MapSet(disk, sw.room, data)
               /\ written' = [written EXCEPT ![sw.room] =
                                 SliceLast(Append(@, sw.data.lastSaved), 2)]
               /\ rooms' = IF sw.detached THEN rooms
                           ELSE MarkSaved(rooms, sw.room, now)
               /\ sweeps' = [sweeps EXCEPT ![s] = LoopFrom(rooms', sw.remaining, now)]
          ELSE /\ sweeps' = [sweeps EXCEPT ![s] = Idle]
               /\ UNCHANGED <<rooms, disk, written>>
       /\ UNCHANGED <<currentRoom, currentUser, status, socketRooms, now,
                      emitted, last, roomOrder>>
       /\ UNCHANGED_GHOST

\* fs.writeFile settles: lastSaved is stamped and the loop goes on, or the
\* rejection leaves the loop for the catch clause
WriteDone(s, ok) ==
    LET sw == sweeps[s]
    IN /\ sw.pc = "write"
       /\ IF ok
          THEN /\ disk' = MapSet(disk, sw.room, sw.data)
               /\ written' = [written EXCEPT ![sw.room] =
                                 SliceLast(Append(@, sw.data.lastSaved), 2)]
               /\ rooms' = IF sw.detached THEN rooms
                           ELSE MarkSaved(rooms, sw.room, now)
               /\ sweeps' = [sweeps EXCEPT ![s] = LoopFrom(rooms', sw.remaining, now)]
          ELSE /\ sweeps' = [sweeps EXCEPT ![s] = Idle]
               /\ UNCHANGED <<rooms, disk, written>>
       /\ UNCHANGED <<currentRoom, currentUser, status, socketRooms, now,
                      emitted, last, roomOrder>>
       /\ UNCHANGED_GHOST

(***************************************************************************)
(* The server after start-up: no room, every connection open and unjoined. *)
(***************************************************************************)
Init ==
    /\ rooms = EmptyObject
    /\ currentRoom = [c \in Conns |-> Null]
    /\ currentUser = [c \in Conns |-> Undefined]
    /\ status = [c \in Conns |-> "connected"]
    /\ socketRooms = [c \in Conns |-> {}]
    /\ now = 0
    /\ emitted = {}
    /\ last = [event |-> "listen", conn |-> Null, outcome |-> "ok"]
    /\ allHistory = EmptyObject
    /\ allChat = EmptyObject
    /\ lastWrite = EmptyObject
    /\ roomOrder = <<>>
    /\ sweeps = [s \in SweepIds |-> Idle]
    /\ disk = EmptyObject
    /\ written = [r \in RoomIds |-> <<>>]

Operations ==
    {Undefined,
     [type |-> "insert", position |-> 1, text |-> "ab", timestamp |-> 1]}
ChatPayloads ==
    {[kind |-> "string", text |-> <<" ", "h">>],
     [kind |-> "string", text |-> <<"k">>],
     [kind |-> "object", message |-> <<"h">>]}
CursorPayloads == {[line |-> 1, ch |-> 2]}
\* cursor payloads, one of them carrying a userId and a timestamp of its own
StampedCursorPayloads ==
    {[line |-> 1, ch |-> 2],
     [line |-> 7, ch |-> 2, userId |-> "c2", timestamp |-> 99]}
LanguageArgs == {UndefinedArg, "python"}

\* the bounds on the number of appended history entries and chat messages
UpdatesBelow(c, n) == HasRoom(c) => Len(allHistory[currentRoom[c]]) < n
ChatsBelow(c, n) == HasRoom(c) => Len(allChat[currentRoom[c]]) < n

(***************************************************************************)
(* Spec: the file operations and code changes of the connections of one    *)
(* room.                                                                   *)
(***************************************************************************)
Next ==
    \/ \E c \in Conns : JoinRoom(c, "A", "Al")
    \/ \E c \in Conns, k \in Contents, op \in Operations \ {Undefined} :
          UpdatesBelow(c, MaxFileUpdates) /\ CodeChange(c, k, op)
    \/ \E c \in Conns, f \in FileNames : SwitchFile(c, f)
    \/ \E c \in Conns, f \in FileNames : CreateFile(c, f, UndefinedArg)
    \/ \E c \in Conns, f \in FileNames : DeleteFile(c, f)
    \/ \E c \in Conns : Disconnect(c)

Spec == Init /\ [][Next]_vars

(***************************************************************************)
(* SpecHistory: code changes past the history limit, with and without an   *)
(* operation descriptor.                                                   *)
(***************************************************************************)
NextHistory ==
    \/ \E c \in Conns : JoinRoom(c, "A", "")
    \/ \E c \in Conns, k \in Contents, op \in Operations :
          UpdatesBelow(c, MaxUpdates) /\ CodeChange(c, k, op)
    \/ \E c \in Conns : Disconnect(c)

SpecHistory == Init /\ [][NextHistory]_vars

(***************************************************************************)
(* SpecMembers: connections joining, moving between and leaving rooms.    *)
(***************************************************************************)
NextMembers ==
    \/ \E c \in Conns, r \in RoomIds : JoinRoom(c, r, "")
    \/ \E c \in Conns, cur \in CursorPayloads : CursorChange(c, cur)
    \/ \E c \in Conns : Disconnect(c)

SpecMembers == Init /\ [][NextMembers]_vars

(***************************************************************************)
(* SpecChat: chat messages past the chat limit.                            *)
(***************************************************************************)
NextChat ==
    \/ \E c \in Conns : JoinRoom(c, "A", "")
    \/ \E c \in Conns, p \in ChatPayloads :
          ChatsBelow(c, MaxChats) /\ ChatMessage(c, p)
    \/ \E c \in Conns : Disconnect(c)

SpecChat == Init /\ [][NextChat]_vars

(***************************************************************************)
(* SpecFileOps: files created in two languages, switched to and deleted,   *)
(* among three file names.                                                 *)
(***************************************************************************)
MoreFileNames == FileNames \cup {"b.js"}

NextFileOps ==
    \/ \E c \in Conns : JoinRoom(c, "A", "Al")
    \/ \E c \in Conns, f \in MoreFileNames : SwitchFile(c, f)
    \/ \E c \in Conns, f \in MoreFileNames, l \in LanguageArgs : CreateFile(c, f, l)
    \/ \E c \in Conns, f \in MoreFileNames : DeleteFile(c, f)
    \/ \E c \in Conns : Disconnect(c)

SpecFileOps == Init /\ [][NextFileOps]_vars

(***************************************************************************)
(* SpecTransform: transformOperation as a function, applied to one         *)
(* incoming descriptor and a list of prior descriptors.                    *)
(***************************************************************************)
MaxOtherOps == 2

TransformPositions == {0, 5, 10}

IncomingOps ==
    {[type |-> "insert", position |-> p, text |-> "x", timestamp |-> 1] :
        p \in TransformPositions}

PriorOps ==
    {[type |-> "insert", position |-> p, text |-> t, timestamp |-> ts] :
        p \in TransformPositions, t \in {"abc", "z"}, ts \in {0, 1}}
    \cup
    {[type |-> "delete", position |-> p, length |-> n, timestamp |-> ts] :
        p \in TransformPositions, n \in {2, 20}, ts \in {0, 1}}
    \cup
    {[type |-> "update", position |-> 0, timestamp |-> 0]}

PriorOpLists == UNION {[1..n -> PriorOps] : n \in 0..MaxOtherOps}

InitTransform ==
    /\ rooms = EmptyObject
    /\ currentRoom = [c \in Conns |-> Null]
    /\ currentUser = [c \in Conns |-> Undefined]
    /\ status = [c \in Conns |-> "connected"]
    /\ socketRooms = [c \in Conns |-> {}]
    /\ now = 0
    /\ emitted = {}
    /\ \E op \in IncomingOps, otherOps \in PriorOpLists :
          last = [event |-> "call", conn |-> Null, outcome |-> "pending",
                  op |-> op, otherOps |-> otherOps]
    /\ allHistory = EmptyObject
    /\ allChat = EmptyObject
    /\ lastWrite = EmptyObject
    /\ roomOrder = <<>>
    /\ sweeps = [s \in SweepIds |-> Idle]
    /\ disk = EmptyObject
    /\ written = [r \in RoomIds |-> <<>>]

CallTransform ==
    /\ last.event = "call"
    /\ last' = [event |-> "transformOperation", conn |-> Null, outcome |-> "ok",
                op |-> last.op, otherOps |-> last.otherOps,
                result |-> transformOperation(last.op, last.otherOps)]
    /\ UNCHANGED <<rooms, currentRoom, currentUser, status, socketRooms, now,
                   emitted, allHistory, allChat, lastWrite>>
    /\ UNCHANGED_SAVER

NextTransform == CallTransform

SpecTransform == InitTransform /\ [][NextTransform]_vars

(***************************************************************************)
(* SpecReplay: edits at different times and replay requests over them.     *)
(***************************************************************************)
ReplayRequests ==
    {EmptyObject}
    \cup {[fromTimestamp |-> f] : f \in 0..MaxTime}
    \cup {[toTimestamp |-> t] : t \in 0..MaxTime}
    \cup {[fromTimestamp |-> f, toTimestamp |-> t] : f \in 0..MaxTime, t \in 0..MaxTime}

NextReplay ==
    \/ \E c \in Conns : JoinRoom(c, "A", "Al")
    \/ \E c \in Conns, op \in Operations \ {Undefined} :
          UpdatesBelow(c, MaxFileUpdates) /\ CodeChange(c, "x", op)
    \/ \E c \in Conns, d \in ReplayRequests : GetReplay(c, d)
    \/ \E c \in Conns : Disconnect(c)
    \/ Tick

SpecReplay == Init /\ [][NextReplay]_vars

(***************************************************************************)
(* SpecReconcile: successive edits whose descriptors are inserts at        *)
(* different positions with increasing timestamps.                         *)
(***************************************************************************)
ReconcileOps ==
    {[type |-> "insert", position |-> p, text |-> "ab", timestamp |-> ts] :
        p \in {1, 3}, ts \in {1, 2}}

NextReconcile ==
    \/ \E c \in Conns : JoinRoom(c, "A", "Al")
    \/ \E c \in Conns, op \in ReconcileOps :
          UpdatesBelow(c, MaxFileUpdates) /\ CodeChange(c, "x", op)
    \/ \E c \in Conns : Disconnect(c)

SpecReconcile == Init /\ [][NextReconcile]_vars

(***************************************************************************)
(* SpecSave: one activation of autoSave at a time, its writes succeeding   *)
(* or failing, while connections join and leave two rooms and time passes. *)
(***************************************************************************)
MaxSaveTime == 4

NextSave ==
    \/ \E c \in Conns : JoinRoom(c, "A", "Al")
    \/ JoinRoom("c2", "B", "Al")
    \/ \E c \in Conns : Disconnect(c)
    \/ TickTo(MaxSaveTime)
    \/ autoSave("s1")
    \/ \E ok \in BOOLEAN : MkdirDone("s1", ok)
    \/ \E ok \in BOOLEAN : WriteDone("s1", ok)

SpecSave == Init /\ [][NextSave]_vars

(***************************************************************************)
(* SpecGuards: every kind of event, on a connection that joins a room and  *)
(* on one that never does.                                                 *)
(***************************************************************************)
MaxGuardEvents == 1

NextGuards ==
    \/ JoinRoom("c1", "A", "Al")
    \/ \E c \in Conns, op \in Operations :
          UpdatesBelow(c, MaxGuardEvents) /\ CodeChange(c, "x", op)
    \/ \E c \in Conns, cur \in CursorPayloads : CursorChange(c, cur)
    \/ \E c \in Conns : SwitchFile(c, "a.js")
    \/ \E c \in Conns : CreateFile(c, "a.js", UndefinedArg)
    \/ \E c \in Conns : DeleteFile(c, "a.js")
    \/ \E c \in Conns, p \in ChatPayloads :
          ChatsBelow(c, MaxGuardEvents) /\ ChatMessage(c, p)
    \/ \E c \in Conns : GetReplay(c, EmptyObject)
    \/ \E c \in Conns : Disconnect(c)

SpecGuards == Init /\ [][NextGuards]_vars

(***************************************************************************)
(* SpecRooms: file events in two rooms, with connections moving between    *)
(* the rooms.                                                              *)
(***************************************************************************)
NextRooms ==
    \/ \E c \in Conns, r \in RoomIds : JoinRoom(c, r, "Al")
    \/ \E c \in Conns : SwitchFile(c, "a.js")
    \/ \E c \in Conns : CreateFile(c, "a.js", UndefinedArg)
    \/ \E c \in Conns, f \in FileNames : DeleteFile(c, f)
    \/ \E c \in Conns : Disconnect(c)

SpecRooms == Init /\ [][NextRooms]_vars

(***************************************************************************)
(* SpecDraft: the draft's code-change, naming the active file, a file that *)
(* comes and goes, and a file that never exists.                           *)
(***************************************************************************)
DraftOperations ==
    {Undefined}
    \cup {[type |-> "update", timestamp |-> 1, fileName |-> f] :
             f \in MoreFileNames \ {MainJs}}

NextDraft ==
    \/ \E c \in Conns : JoinRoom(c, "A", "Al")
    \/ \E c \in Conns, k \in Contents, op \in DraftOperations :
          UpdatesBelow(c, MaxUpdates) /\ CodeChangeDraft(c, k, op)
    \/ \E c \in Conns : SwitchFile(c, "a.js")
    \/ \E c \in Conns : CreateFile(c, "a.js", UndefinedArg)
    \/ \E c \in Conns : DeleteFile(c, "a.js")
    \/ \E c \in Conns : Disconnect(c)

SpecDraft == Init /\ [][NextDraft]_vars

(***************************************************************************)
(* SpecJoiners: one more connection than there are colors; the connections *)
(* join one room without a name, one after the other in the order of their *)
(* numbers; the first few of them may leave at any time.                   *)
(***************************************************************************)
MaxJoiners == Len(userColors) + 1
\* the connections 1..MaxLeavers may leave
MaxLeavers == 3
Joiner(i) == "c" \o ToString(i)
Joiners == {Joiner(i) : i \in 1..MaxJoiners}

InitJoiners ==
    /\ rooms = EmptyObject
    /\ currentRoom = [c \in Joiners |-> Null]
    /\ currentUser = [c \in Joiners |-> Undefined]
    /\ status = [c \in Joiners |-> "connected"]
    /\ socketRooms = [c \in Joiners |-> {}]
    /\ now = 0
    /\ emitted = {}
    /\ last = [event |-> "listen", conn |-> Null, outcome |-> "ok"]
    /\ allHistory = EmptyObject
    /\ allChat = EmptyObject
    /\ lastWrite = EmptyObject
    /\ roomOrder = <<>>
    /\ sweeps = [s \in SweepIds |-> Idle]
    /\ disk = EmptyObject
    /\ written = [r \in RoomIds |-> <<>>]

NextJoiners ==
    \/ \E i \in 1..MaxJoiners :
          /\ \A j \in 1..(i - 1) : currentRoom[Joiner(j)] # Null
          /\ currentRoom[Joiner(i)] = Null
          /\ JoinRoom(Joiner(i), "A", "")
    \/ \E i \in 1..MaxLeavers :
          currentRoom[Joiner(i)] # Null /\ Disconnect(Joiner(i))

SpecJoiners == InitJoiners /\ [][NextJoiners]_vars

(***************************************************************************)
(* SpecOrder: code changes of two connections of one room while the clock  *)
(* advances, past the history limit.                                       *)
(***************************************************************************)
NextOrder ==
    \/ \E c \in Conns : JoinRoom(c, "A", "Al")
    \/ \E c \in Conns, k \in Contents, op \in Operations \ {Undefined} :
          UpdatesBelow(c, MaxUpdates) /\ CodeChange(c, k, op)
    \/ Tick

SpecOrder == Init /\ [][NextOrder]_vars

(***************************************************************************)
(* SpecCursor: cursor changes of two connections of one room, one of which *)
(* moves to a second room and back, with payloads that carry fields of     *)
(* their own.                                                              *)
(***************************************************************************)
NextCursor ==
    \/ \E c \in Conns : JoinRoom(c, "A", "Al")
    \/ JoinRoom("c2", "B", "Al")
    \/ \E c \in Conns, cur \in StampedCursorPayloads : CursorChange(c, cur)
    \/ Tick
    \/ \E c \in Conns : Disconnect(c)

SpecCursor == Init /\ [][NextCursor]_vars

(***************************************************************************)
(* SpecRegistry: joins to a room in which a file is created and a chat     *)
(* message is sent before the next join; one connection also joins a       *)
(* second room.                                                            *)
(***************************************************************************)
NextRegistry ==
    \/ \E c \in Conns : JoinRoom(c, "A", "Al")
    \/ JoinRoom("c2", "B", "Al")
    \/ \E c \in Conns : CreateFile(c, "a.js", UndefinedArg)
    \/ \E c \in Conns :
          ChatsBelow(c, 1)
          /\ ChatMessage(c, [kind |-> "string", text |-> <<"k">>])
    \/ \E c \in Conns : Disconnect(c)

SpecRegistry == Init /\ [][NextRegistry]_vars

(***************************************************************************)
(* SpecSweeps: the interval timer fires autoSave again while an earlier     *)
(* activation is still suspended, with one room whose users come and go.   *)
(***************************************************************************)
NextSweeps ==
    \/ \E c \in Conns : JoinRoom(c, "A", "Al")
    \/ \E c \in Conns : Disconnect(c)
    \/ TickTo(MaxSaveTime)
    \/ \E s \in SweepIds : autoSave(s)
    \/ \E s \in SweepIds, ok \in BOOLEAN : MkdirDone(s, ok)
    \/ \E s \in SweepIds, ok \in BOOLEAN : WriteDone(s, ok)

SpecSweeps == Init /\ [][NextSweeps]_vars

(***************************************************************************)
(* SpecSnapshot: code changes, file events and disconnects of a room while *)
(* an activation of autoSave is suspended on the write of its snapshot.    *)
(***************************************************************************)
\* The clock of SpecSnapshot stops at MaxSnapshotTime.
MaxSnapshotTime == 2

NextSnapshot ==
    \/ \E c \in Conns : JoinRoom(c, "A", "Al")
    \/ UpdatesBelow("c1", 1)
       /\ \E op \in Operations \ {Undefined} : CodeChange("c1", "x", op)
    \/ CreateFile("c1", "a.js", UndefinedArg)
    \/ SwitchFile("c1", "a.js")
    \/ DeleteFile("c1", "a.js")
    \/ \E c \in Conns : Disconnect(c)
    \/ TickTo(MaxSnapshotTime)
    \/ autoSave("s1")
    \/ MkdirDone("s1", TRUE)
    \/ \E ok \in BOOLEAN : WriteDone("s1", ok)

SpecSnapshot == Init /\ [][NextSnapshot]_vars

(***************************************************************************)
(* SpecIsolation: the session events of two connections that are in        *)
(* different rooms.                                                        *)
(***************************************************************************)
NextIsolation ==
    \/ JoinRoom("c1", "A", "Al")
    \/ JoinRoom("c2", "B", "Al")
    \/ \E c \in Conns, op \in Operations \ {Undefined} :
          UpdatesBelow(c, 1) /\ CodeChange(c, "x", op)
    \/ \E c \in Conns, cur \in CursorPayloads : CursorChange(c, cur)
    \/ \E c \in Conns : SwitchFile(c, "a.js")
    \/ \E c \in Conns : CreateFile(c, "a.js", UndefinedArg)
    \/ \E c \in Conns : DeleteFile(c, "a.js")
    \/ \E c \in Conns :
          ChatsBelow(c, 1) /\ ChatMessage(c, [kind |-> "string", text |-> <<"k">>])

SpecIsolation == Init /\ [][NextIsolation]_vars

(***************************************************************************)
(* Properties                                                              *)
(***************************************************************************)
\* the room of the connection of the last event
LastRoom == rooms[currentRoom[last.conn]]
\* the last event was handled for a connection in a room (not returned at the guard)
LastHandled(event) == last.event = event /\ last.outcome # "ignored"

\* C1: in every reachable state the key "main.js" is present in the files map
\* of every room, whatever file names were created, deleted, switched to or edited.
C1_MainJsPresent == \A r \in DOMAIN rooms : MainJs \in DOMAIN rooms[r].files

\* a delete-file of "main.js" was just handled in a room whose history is not empty
C1_Witness ==
    /\ LastHandled("delete-file")
    /\ last.fileName = MainJs
    /\ LastRoom.history # <<>>

\* C2: in every reachable state activeFile is a key of the files map of its room.
C2_ActiveFileExists ==
    \A r \in DOMAIN rooms : rooms[r].activeFile \in DOMAIN rooms[r].files

\* the file that was active has just been deleted, while two connections are in the room
C2_Witness ==
    /\ LastHandled("delete-file")
    /\ last.result
    /\ last.active = last.fileName
    /\ UsersSize(LastRoom) = 2

\* C3: every room of the registry has at least one user, and every open
\* connection that joined a room finds that room in the registry with itself
\* among its users; removing the last user removes the room in the same step.
C3_RoomIffUsers ==
    /\ \A r \in DOMAIN rooms : UsersSize(rooms[r]) > 0
    /\ \A c \in Conns :
         status[c] = "connected" /\ currentRoom[c] # Null
         => /\ currentRoom[c] \in DOMAIN rooms
            /\ c \in DOMAIN rooms[currentRoom[c]].users

\* a disconnect has just removed the last user of a room, and the room with it,
\* while another room stays in the registry
C3_Witness ==
    /\ last.event = "disconnect"
    /\ currentRoom[last.conn] # Null
    /\ currentRoom[last.conn] \notin DOMAIN rooms
    /\ rooms # EmptyObject

\* C4: every connection is a key of the users map of at most one room.
C4_OneMembership ==
    \A c \in Conns :
        Cardinality({r \in DOMAIN rooms : c \in DOMAIN rooms[r].users}) <= 1

\* C5: once the disconnect of a connection is processed, no room of the
\* registry has the connection as a key of its users map or its cursors map,
\* and no room is left without users.
C5_DisconnectRemoves ==
    \A c \in Conns :
        status[c] = "disconnected"
        => \A r \in DOMAIN rooms :
              /\ c \notin DOMAIN rooms[r].users
              /\ c \notin DOMAIN rooms[r].cursors
              /\ UsersSize(rooms[r]) > 0

\* C6: the history of a room is never longer than the limit, and it holds
\* exactly the most recently appended entries, in the order they were appended.
C6_HistoryKeepsLastN ==
    \A r \in DOMAIN rooms :
        LET h == rooms[r].history
            all == allHistory[r]
        IN /\ Len(h) <= roomHistoryLimit
           /\ Len(h) = Min(Len(all), roomHistoryLimit)
           /\ \A i \in 1..Len(h) : h[i] = all[Len(all) - Len(h) + i]

\* more entries were appended than the limit, the oldest differing from the
\* oldest that is kept
C6_Witness ==
    \E r \in DOMAIN rooms :
        /\ Len(allHistory[r]) > roomHistoryLimit
        /\ allHistory[r][1] # rooms[r].history[1]

\* C7: the chat log of a room is never longer than its limit, and it holds
\* exactly the most recently appended messages, in the order they were appended.
C7_ChatKeepsLastN ==
    \A r \in DOMAIN rooms :
        LET ch == rooms[r].chat
            all == allChat[r]
        IN /\ Len(ch) <= chatMessageLimit
           /\ Len(ch) = Min(Len(all), chatMessageLimit)
           /\ \A i \in 1..Len(ch) : ch[i] = all[Len(all) - Len(ch) + i]

\* more messages were appended than the limit, the oldest differing from the
\* oldest that is kept
C7_Witness ==
    \E r \in DOMAIN rooms :
        /\ Len(allChat[r]) > chatMessageLimit
        /\ allChat[r][1] # rooms[r].chat[1]

\* C8: the content of every file to which updateCode was applied is the
\* content of the last updateCode applied to it.
C8_LastWriteWins ==
    \A r \in DOMAIN rooms :
        \A f \in DOMAIN rooms[r].files \cap DOMAIN lastWrite[r] :
            lastWrite[r][f] # NoWrite
            => rooms[r].files[f].content = lastWrite[r][f]

\* two connections wrote different contents to the same file, one after the other
C8_Witness ==
    \E r \in DOMAIN rooms :
        LET all == allHistory[r]
        IN /\ Len(all) >= 2
           /\ all[1].file = all[2].file
           /\ all[1].content # all[2].content
           /\ all[1].operation.userId # all[2].operation.userId
           /\ all[2].file \in DOMAIN rooms[r].files

\* C9: after a code-change of a connection in a room, the active file holds the
\* payload content, the newest history entry records it, and a code-update
\* with it was emitted to every other member of the room.
C9_CodeChangeAlwaysApplies ==
    LastHandled("code-change")
    => LET room == LastRoom
       IN /\ room.files[room.activeFile].content = last.content
          /\ room.history # <<>>
          /\ room.history[Len(room.history)].content = last.content
          /\ \A d \in Others(last.conn, currentRoom[last.conn]) :
                \E m \in emitted :
                    /\ m.to = d
                    /\ m.event = "code-update"
                    /\ m.data.content = last.content

\* C10: in every reachable state deleteFile("main.js") returns false and leaves
\* the room as it is; a delete-file of "main.js" emits nothing.
C10_DeleteMainJsRejected ==
    /\ \A r \in DOMAIN rooms :
         /\ ~deleteFileResult(rooms[r], MainJs)
         /\ deleteFile(rooms[r], MainJs) = rooms[r]
    /\ LastHandled("delete-file") /\ last.fileName = MainJs
       => ~last.result /\ emitted = {}

\* a delete-file of "main.js" was just handled while another file is active
C10_Witness ==
    /\ LastHandled("delete-file")
    /\ last.fileName = MainJs
    /\ LastRoom.activeFile # MainJs
    /\ UsersSize(LastRoom) = 2

\* the fields of a room other than files and activeFile
RoomRest(room) ==
    <<room.id, room.code, room.users, room.cursors, room.history, room.chat,
      room.lastSaved>>

\* C11: deleteFile of a present file other than main.js returns true and removes
\* that file only; activeFile becomes "main.js" if the file was active and is
\* unchanged otherwise; deleteFile of an absent name returns false and changes
\* nothing.  The delete-file handler reports what the call did.
C11_DeleteFile ==
    /\ \A r \in DOMAIN rooms : \A f \in MoreFileNames \ {MainJs} :
         LET room == rooms[r]
             after == deleteFile(room, f)
         IN IF f \in DOMAIN room.files
            THEN /\ deleteFileResult(room, f)
                 /\ DOMAIN after.files = DOMAIN room.files \ {f}
                 /\ \A g \in DOMAIN after.files : after.files[g] = room.files[g]
                 /\ after.activeFile =
                        IF room.activeFile = f THEN MainJs ELSE room.activeFile
                 /\ RoomRest(after) = RoomRest(room)
            ELSE ~deleteFileResult(room, f) /\ after = room
    /\ LastHandled("delete-file") /\ last.result
       => /\ last.fileName \notin DOMAIN LastRoom.files
          /\ LastRoom.activeFile =
                IF last.active = last.fileName THEN MainJs ELSE last.active

\* a file that was not active has just been deleted while a third file is active
C11_Witness ==
    /\ LastHandled("delete-file")
    /\ last.result
    /\ last.active # last.fileName
    /\ LastRoom.activeFile \notin {MainJs, last.fileName}

\* C20: createFile with a present name returns failure and leaves the room as
\* it is; with an absent name it inserts that one file with the given content
\* and language and changes neither activeFile nor any other file.
C20_CreateFile ==
    /\ \A r \in DOMAIN rooms :
         \A f \in MoreFileNames, k \in Contents \cup {""},
            l \in {DefaultLanguage, "python"} :
            LET room == rooms[r]
                after == createFile(room, f, k, l)
            IN IF f \in DOMAIN room.files
               THEN ~createFileCreated(room, f) /\ after = room
               ELSE /\ createFileCreated(room, f)
                    /\ DOMAIN after.files = DOMAIN room.files \cup {f}
                    /\ after.files[f] = [name |-> f, content |-> k, language |-> l]
                    /\ \A g \in DOMAIN room.files : after.files[g] = room.files[g]
                    /\ after.activeFile = room.activeFile
                    /\ RoomRest(after) = RoomRest(room)
    /\ LastHandled("create-file") /\ last.created
       => LastRoom.files[last.fileName] =
             [name |-> last.fileName, content |-> "",
              language |-> DefaultArg(last.language, DefaultLanguage)]

\* a create-file of a name that is present, in another language, has just been
\* refused
C20_Witness ==
    /\ LastHandled("create-file")
    /\ ~last.created
    /\ last.fileName # MainJs
    /\ last.language = "python"
    /\ LastRoom.files[last.fileName].language = DefaultLanguage

\* the position of op after the first n prior operations, as the rule reads:
\* an earlier insert at or before the position adds the length of its text, an
\* earlier delete before the position subtracts min(length, distance), any
\* other prior operation leaves it.
RECURSIVE AdjustedPosition(_, _, _)
AdjustedPosition(op, otherOps, n) ==
    IF n = 0 THEN op.position
    ELSE LET p == AdjustedPosition(op, otherOps, n - 1)
             o == otherOps[n]
         IN CASE o.timestamp < op.timestamp /\ o.type = "insert" /\ o.position <= p
                   -> p + Len(o.text)
              [] o.timestamp < op.timestamp /\ o.type = "delete" /\ o.position < p
                   -> p - Min(o.length, p - o.position)
              [] OTHER -> p

\* C13: transformOperation returns the incoming descriptor with its position
\* adjusted by the prior operations in order (see AdjustedPosition) and nothing
\* else changed; an insert at 10 against an earlier insert of "abc" at 5 gives 13.
C13_TransformAdjusts ==
    LastHandled("transformOperation")
    => /\ last.result =
             [last.op EXCEPT !.position =
                 AdjustedPosition(last.op, last.otherOps, Len(last.otherOps))]
       /\ (/\ last.op.position = 10
           /\ Len(last.otherOps) = 1
           /\ last.otherOps[1] = [type |-> "insert", position |-> 5,
                                  text |-> "abc", timestamp |-> 0])
          => last.result.position = 13

\* an insert at 10 has been transformed against an earlier insert of "abc" at
\* 10 and a later delete: the insert at the same position shifts it
C13_Witness ==
    /\ LastHandled("transformOperation")
    /\ Len(last.otherOps) = 2
    /\ last.otherOps[1] = [type |-> "insert", position |-> 10,
                           text |-> "abc", timestamp |-> 0]
    /\ last.otherOps[2].type = "delete" /\ last.otherOps[2].timestamp = 1
    /\ last.op.position = 10
    /\ last.result.position = 13

\* C15: with non-negative positions and lengths the position returned by
\* transformOperation is non-negative.
C15_PositionNonNegative ==
    LastHandled("transformOperation") => last.result.position >= 0

\* an earlier delete longer than the distance to the position has been applied:
\* the position lands on the position of the delete
C15_Witness ==
    /\ LastHandled("transformOperation")
    /\ \E i \in 1..Len(last.otherOps) :
          /\ last.otherOps[i].type = "delete"
          /\ last.otherOps[i].timestamp < last.op.timestamp
          /\ last.otherOps[i].length > last.op.position
          /\ last.otherOps[i].position < last.op.position
    /\ last.result.position = 0
    /\ last.op.position > 0

\* C12: a replay request answers with the entries of the history, in order,
\* whose timestamp lies in [from, to], where from is 0 and to is the current
\* time when omitted; the answer is empty when from > to, for every
\* non-negative from and to, 0 included.
C12_ReplayWindow ==
    LastHandled("get-replay")
    => LET from == IF Has(last.data, "fromTimestamp")
                   THEN last.data.fromTimestamp ELSE 0
           to == IF Has(last.data, "toTimestamp")
                 THEN last.data.toTimestamp ELSE now
           Within(op) == from <= op.timestamp /\ op.timestamp <= to
       IN /\ emitted # {}
          /\ \A e \in emitted :
                /\ e.to = last.conn /\ e.event = "replay-data"
                /\ e.data.entries = SelectSeq(LastRoom.history, Within)
                /\ from > to => e.data.entries = <<>>

\* C14: on a code-change whose descriptor has position p, when the recent
\* history is one entry recording an insert of text t at a position <= p with
\* an earlier timestamp, the descriptor stored in the history and the one
\* broadcast have position p + length(t).
C14_Reconciled ==
    LastHandled("code-change") /\ last.outcome = "ok"
    => LET h == allHistory[currentRoom[last.conn]]
           n == Len(h)
           recent == SliceLast(SubSeq(h, 1, n - 1), RecentWindow)
           op == last.operation
       IN (/\ Len(recent) = 1
           /\ recent[1].operation.type = "insert"
           /\ recent[1].operation.position <= op.position
           /\ recent[1].timestamp < op.timestamp
           /\ recent[1].operation.timestamp < op.timestamp)
          => /\ h[n].operation.position =
                   op.position + Len(recent[1].operation.text)
             /\ \A e \in emitted :
                   e.event = "code-update"
                   => e.data.operation.position =
                         op.position + Len(recent[1].operation.text)

\* a step of an activation of autoSave
SweepStep ==
    \E s \in SweepIds :
       \/ autoSave(s)
       \/ \E ok \in BOOLEAN : MkdirDone(s, ok)
       \/ \E ok \in BOOLEAN : WriteDone(s, ok)

\* C16: when a sweep stops after a write, no room that the sweep had still to
\* visit is stale: a failed write for one room does not keep the sweep from
\* the other stale rooms.
C16_FailureIsolated ==
    [][\A s \in SweepIds :
          sweeps[s].pc = "write" /\ sweeps'[s].pc = "idle"
          => \A i \in 1..Len(sweeps[s].remaining) :
                ~IsStale(rooms'[sweeps[s].remaining[i]], now)]_vars

C18_SaveOnlyStamps ==
    /\ [][SweepStep
          => /\ DOMAIN rooms' = DOMAIN rooms
             /\ \A r \in DOMAIN rooms :
                   [rooms'[r] EXCEPT !.lastSaved = rooms[r].lastSaved] = rooms[r]
             /\ UNCHANGED <<roomOrder, currentRoom, currentUser, status,
                            socketRooms, emitted, last>>]_vars
    /\ [](\A c \in Conns :
             status[c] = "connected"
             => /\ ENABLED JoinRoom(c, "A", "Al")
                /\ ENABLED Disconnect(c))

\* a snapshot has been written and its room is gone, a room with two users has
\* been stamped, and an activation is suspended on a further write
C18_Witness ==
    /\ \E r \in DOMAIN disk : r \notin DOMAIN rooms
    /\ \E r \in DOMAIN rooms : rooms[r].lastSaved > 0 /\ UsersSize(rooms[r]) = 2
    /\ sweeps["s1"].pc = "write"

\* one of the room events of connection c
RoomEvent(c) ==
    \/ \E k \in Contents, op \in Operations : CodeChange(c, k, op)
    \/ \E cur \in CursorPayloads : CursorChange(c, cur)
    \/ \E f \in MoreFileNames : SwitchFile(c, f)
    \/ \E f \in MoreFileNames, l \in LanguageArgs : CreateFile(c, f, l)
    \/ \E f \in MoreFileNames : DeleteFile(c, f)
    \/ \E p \in ChatPayloads : ChatMessage(c, p)
    \/ \E d \in ReplayRequests : GetReplay(c, d)
    \/ Disconnect(c)

\* C19: a code-change, cursor-change, switch-file, create-file, delete-file,
\* chat-message, get-replay or disconnect on a connection that has not joined
\* a room changes no room and not the registry, and emits nothing to any
\* other connection.
C19_UnjoinedNoOp ==
    [][\A c \in Conns :
          currentRoom[c] = Null /\ RoomEvent(c)
          => /\ rooms' = rooms
             /\ roomOrder' = roomOrder
             /\ \A e \in emitted' : e.to = c]_vars

\* a connection that never joined has disconnected while the other connection
\* holds a room with an edit, a message and a second file
C19_Witness ==
    \E c \in Conns :
       /\ currentRoom[c] = Null
       /\ status[c] = "disconnected"
       /\ last.event = "disconnect" /\ last.conn = c
       /\ "A" \in DOMAIN rooms
       /\ rooms["A"].history # <<>>
       /\ rooms["A"].chat # <<>>
       /\ "a.js" \in DOMAIN rooms["A"].files

\* the connections bound to a room: connected, and the room is the one they
\* joined last
Members(r) == {c \in Conns : status[c] = "connected" /\ currentRoom[c] = r}

\* C21: a create-file with a name that is present sends an error to the caller
\* and to nobody else and leaves every room as it is; a create-file with an
\* absent name sends file-created, with the new file, to every connection
\* bound to the room, the caller included.
C21_CreateFileReplies ==
    [][\A c \in Conns, f \in MoreFileNames, l \in LanguageArgs :
          HasRoom(c) /\ CreateFile(c, f, l)
          => LET r == currentRoom[c]
             IN IF f \in DOMAIN rooms[r].files
                THEN /\ rooms' = rooms
                     /\ emitted' # {}
                     /\ \A e \in emitted' : e.to = c /\ e.event = "error"
                ELSE /\ {e.to : e \in emitted'} = Members(r)
                     /\ c \in Members(r)
                     /\ \A e \in emitted' :
                           /\ e.event = "file-created"
                           /\ e.data = rooms'[r].files[f]]_vars

\* a create-file of a present name has been refused while both connections
\* are bound to the room
C21_Witness ==
    /\ LastHandled("create-file")
    /\ ~last.created
    /\ Members(currentRoom[last.conn]) = Conns
    /\ emitted = Emit({last.conn}, "error",
                      [message |-> "File already exists or invalid name"])

\* C22: a delete-file of "main.js" is answered to the caller, and to nobody
\* else; a delete-file that deleted the file sends file-deleted with the new
\* active file to every connection bound to the room.
C22_DeleteMainJsReported ==
    LastHandled("delete-file")
    => IF last.fileName = MainJs
       THEN /\ emitted # {}
            /\ \A e \in emitted : e.to = last.conn
       ELSE last.result
            => /\ {e.to : e \in emitted} = Members(currentRoom[last.conn])
               /\ \A e \in emitted :
                     /\ e.event = "file-deleted"
                     /\ e.data.newActiveFile = LastRoom.activeFile

\* C23: switchFile with a present name makes it the active file and changes
\* nothing else; with an absent name it finds nothing and leaves the room as it
\* is.  The switch-file handler sends the file to the caller when it was found
\* and emits nothing when it was not.
C23_SwitchFile ==
    /\ \A r \in DOMAIN rooms : \A f \in MoreFileNames :
          LET room == rooms[r]
              after == switchFile(room, f)
          IN IF f \in DOMAIN room.files
             THEN /\ switchFileFound(room, f)
                  /\ after.activeFile = f
                  /\ after.files = room.files
                  /\ RoomRest(after) = RoomRest(room)
             ELSE ~switchFileFound(room, f) /\ after = room
    /\ LastHandled("switch-file")
       => IF last.found
          THEN /\ LastRoom.activeFile = last.fileName
               /\ \E e \in emitted :
                     /\ e.to = last.conn /\ e.event = "file-switched"
                     /\ e.data.content = LastRoom.files[last.fileName].content
          ELSE /\ emitted = {}
               /\ last.fileName \notin DOMAIN LastRoom.files
               /\ LastRoom.activeFile \in DOMAIN LastRoom.files

\* a switch-file to an absent name has been handled while another file than
\* main.js is active
C23_Witness ==
    /\ LastHandled("switch-file")
    /\ ~last.found
    /\ LastRoom.activeFile # MainJs
    /\ emitted = {}

\* C24: in the draft, updateCode with a name that is no key of files changes
\* nothing: no file appears, no content changes, no history entry is added.
\* With a present name it replaces the content of that file only and adds one
\* history entry, at the end of the log.
C24_DraftUpdateCode ==
    /\ \A r \in DOMAIN rooms : \A f \in MoreFileNames, k \in Contents :
          LET room == rooms[r]
              after == updateCodeDraft(room, f, k, now)
              full == room.history \o <<[timestamp |-> now, content |-> k,
                                         fileName |-> f]>>
              n == Len(after.history)
          IN IF f \notin DOMAIN room.files
             THEN after = room
             ELSE /\ DOMAIN after.files = DOMAIN room.files
                  /\ \A g \in DOMAIN room.files \ {f} : after.files[g] = room.files[g]
                  /\ after.files[f] = [room.files[f] EXCEPT !.content = k]
                  /\ n = Min(Len(full), draftHistoryLimit)
                  /\ after.history = SubSeq(full, Len(full) - n + 1, Len(full))
                  /\ [after EXCEPT !.files = room.files, !.history = room.history]
                        = room
    /\ LastHandled("code-change")
       => IF last.applied
          THEN /\ LastRoom.files[last.fileName].content = last.content
               /\ LastRoom.history[Len(LastRoom.history)].fileName = last.fileName
          ELSE last.fileName \notin DOMAIN LastRoom.files

\* a code-change naming a file that does not exist has been handled in a room
\* with a full history and a second file
C24_Witness ==
    /\ LastHandled("code-change")
    /\ ~last.applied
    /\ Len(LastRoom.history) = draftHistoryLimit
    /\ "a.js" \in DOMAIN LastRoom.files
    /\ LastRoom.history[1].fileName # LastRoom.history[2].fileName

\* C25: the color of a user is the palette entry at (number of users in the
\* room just before the user was added) mod (palette size); when all nine
\* connections are in the room, the first has palette[0], the second
\* palette[1] and the ninth palette[0] again.
C25_ColorByUserCount ==
    /\ [][\A c \in Joiners :
             currentRoom[c] = Null /\ JoinRoom(c, "A", "")
             => LET count == IF "A" \in DOMAIN rooms
                             THEN Cardinality(DOMAIN rooms["A"].users) ELSE 0
                IN /\ rooms'["A"].users[c].color =
                         userColors[(count % Len(userColors)) + 1]
                   /\ currentUser'[c].color = rooms'["A"].users[c].color]_vars
    /\ []("A" \in DOMAIN rooms /\ DOMAIN rooms["A"].users = Joiners
          => /\ rooms["A"].users[Joiner(1)].color = userColors[1]
             /\ rooms["A"].users[Joiner(2)].color = userColors[2]
             /\ rooms["A"].users[Joiner(9)].color = userColors[1])

\* nine users are in the room and the ninth has just joined
C25_Witness ==
    /\ "A" \in DOMAIN rooms
    /\ Cardinality(DOMAIN rooms["A"].users) = 9
    /\ LastHandled("join-room")
    /\ last.conn = Joiner(9)

\* C26: a user who joined without a name is called User<N>, N being one more
\* than the number of joins to the room before it.  The connections join in
\* the order of their numbers, each once, and while the first of them is in
\* the room the room is the one it created: the i-th connection is User<i>.
C26_NamedByJoinOrder ==
    "A" \in DOMAIN rooms /\ Joiner(1) \in DOMAIN rooms["A"].users
    => \A i \in 1..MaxJoiners :
          Joiner(i) \in DOMAIN rooms["A"].users
          => rooms["A"].users[Joiner(i)].username = "User" \o ToString(i)

\* C27: a chat-message event of a connection in a room, its payload a string
\* or an object {message}, appends one message with the trimmed text to the
\* chat log of the room and sends it to every member, the sender included.
C27_ChatAppendsAndBroadcasts ==
    LastHandled("chat-message")
    => /\ last.outcome = "ok"
       /\ LET r == currentRoom[last.conn]
              ch == rooms[r].chat
          IN /\ ch # <<>>
             /\ ch[Len(ch)] = allChat[r][Len(allChat[r])]
             /\ ch[Len(ch)].userId = last.conn
             /\ Trim(ch[Len(ch)].message) = ch[Len(ch)].message
             /\ emitted = Emit(Members(r), "chat-message",
                               [f \in DOMAIN ch[Len(ch)] \ {"timestamp"} |->
                                   ch[Len(ch)][f]])

\* C28: after join-room the caller, and nobody else, has received one
\* room-state message made from the room with the caller in it: the room id,
\* the active file name, every file, every user (the caller among them),
\* every cursor, and the last min(StateChatWindow, chat length) chat messages
\* in their order; user-joined with the caller's user has gone to every other
\* member of the room and not to the caller.
C28_JoinSnapshot ==
    LastHandled("join-room")
    => LET c == last.conn
           r == last.roomId
           room == rooms[r]
           n == Min(StateChatWindow, Len(room.chat))
           states == {m \in emitted : m.event = "room-state"}
           joined == {m \in emitted : m.event = "user-joined"}
       IN /\ Cardinality(states) = 1
          /\ \A m \in states :
                /\ m.to = c
                /\ m.data.roomId = r
                /\ m.data.activeFile = room.activeFile
                /\ m.data.files = room.files
                /\ m.data.users = room.users
                /\ c \in DOMAIN m.data.users
                /\ m.data.cursors = room.cursors
                /\ Len(m.data.chat) = n
                /\ \A i \in 1..n :
                      m.data.chat[i] = room.chat[Len(room.chat) - n + i]
          /\ {m.to : m \in joined} = Members(r) \ {c}
          /\ \A m \in joined : m.data = room.users[c]
          /\ emitted = states \cup joined

\* a connection has joined a room that has another member and whose chat
\* log is longer than the window of the snapshot
C28_Witness ==
    /\ LastHandled("join-room")
    /\ Members(last.roomId) \ {last.conn} # {}
    /\ Len(rooms[last.roomId].chat) > StateChatWindow

\* C29: the code-change events of a room are recorded in the order in which
\* they are processed: each one puts its entry, stamped with the time of the
\* server, behind the entries already in the history, whose order stays as
\* it was (the oldest leave when the limit is passed); and in every state the
\* timestamps of a history never decrease from one entry to the next.
C29_HistoryInArrivalOrder ==
    /\ [](\A r \in DOMAIN rooms :
            \A i, j \in 1..Len(rooms[r].history) :
                i <= j => rooms[r].history[i].timestamp
                             <= rooms[r].history[j].timestamp)
    /\ [][\A c \in Conns, k \in Contents, op \in Operations \ {Undefined} :
             HasRoom(c) /\ CodeChange(c, k, op)
             => LET h == rooms[currentRoom[c]].history
                    h2 == rooms'[currentRoom[c]].history
                IN /\ Len(h2) = Min(Len(h) + 1, roomHistoryLimit)
                   /\ h2[Len(h2)].timestamp = now
                   /\ h2[Len(h2)].content = k
                   /\ h2[Len(h2)].operation.userId = c
                   /\ \A i \in 1..(Len(h2) - 1) :
                         h2[i] = h[Len(h) - (Len(h2) - 1) + i]]_vars

\* a history that has lost its oldest entry holds entries of two connections
\* made at different times
C29_Witness ==
    /\ LastHandled("code-change")
    /\ Len(allHistory[currentRoom[last.conn]]) > roomHistoryLimit
    /\ LastRoom.history[1].timestamp < LastRoom.history[Len(LastRoom.history)].timestamp
    /\ LastRoom.history[1].operation.userId
          # LastRoom.history[Len(LastRoom.history)].operation.userId

\* C30: in every state the cursor entry stored under a connection id has
\* that id as its userId; a cursor-change of connection c sets the entry
\* under c, and no other, to the payload stamped with c and the current
\* time, whatever userId or timestamp the payload carries, and leaves every
\* other entry of every room as it was.
C30_CursorStampedWithConnection ==
    /\ [](\A r \in DOMAIN rooms :
            \A c \in DOMAIN rooms[r].cursors : rooms[r].cursors[c].userId = c)
    /\ [][\A c \in Conns, cur \in StampedCursorPayloads :
             HasRoom(c) /\ CursorChange(c, cur)
             => LET r == currentRoom[c]
                    cs == rooms[r].cursors
                    cs2 == rooms'[r].cursors
                IN /\ DOMAIN cs2 = DOMAIN cs \cup {c}
                   /\ cs2[c].userId = c
                   /\ cs2[c].timestamp = now
                   /\ \A f \in DOMAIN cur \ {"userId", "timestamp"} :
                         cs2[c][f] = cur[f]
                   /\ DOMAIN cs2[c] = DOMAIN cur \cup {"userId", "timestamp"}
                   /\ \A d \in DOMAIN cs \ {c} : cs2[d] = cs[d]
                   /\ \A q \in DOMAIN rooms \ {r} :
                         rooms'[q].cursors = rooms[q].cursors]_vars

\* connection c1 has sent a cursor that names c2 as its user, at a time
\* other than the timestamp it carries, into a room where c2 has a cursor
C30_Witness ==
    /\ LastHandled("cursor-change")
    /\ last.conn = "c1"
    /\ LastRoom.cursors["c1"].line = 7
    /\ LastRoom.cursors["c1"].timestamp = now
    /\ "c2" \in DOMAIN LastRoom.cursors

\* C31: for every room that is reached and every connection id, removeUser
\* takes the entry of that id out of users and out of cursors and leaves
\* every other entry and every other field of the room as it was; for an id
\* that has no entry the room is unchanged, and removing twice gives what
\* removing once gives.
C31_RemoveUserIdempotent ==
    \A r \in DOMAIN rooms : \A c \in Conns \cup {"c9"} :
        LET room == rooms[r]
            once == removeUser(room, c)
        IN /\ DOMAIN once.users = DOMAIN room.users \ {c}
           /\ DOMAIN once.cursors = DOMAIN room.cursors \ {c}
           /\ \A d \in DOMAIN once.users : once.users[d] = room.users[d]
           /\ \A d \in DOMAIN once.cursors : once.cursors[d] = room.cursors[d]
           /\ once.files = room.files
           /\ once.activeFile = room.activeFile
           /\ <<once.id, once.code, once.history, once.chat, once.lastSaved>>
                 = <<room.id, room.code, room.history, room.chat, room.lastSaved>>
           /\ removeUser(once, c) = once
           /\ (c \notin DOMAIN room.users \cup DOMAIN room.cursors => once = room)

\* a connection has left a room in which users stay, each with a cursor:
\* the room holds no user and no cursor of the leaver
C31_Witness ==
    /\ LastHandled("disconnect")
    /\ currentRoom[last.conn] \in DOMAIN rooms
    /\ last.conn \notin DOMAIN LastRoom.users \cup DOMAIN LastRoom.cursors
    /\ DOMAIN LastRoom.cursors # {}
    /\ DOMAIN LastRoom.users = DOMAIN LastRoom.cursors

\* C32: getOrCreateRoom, applied by every join-room, gives a registry that
\* holds the room id and every room it held before, each unchanged; for an
\* id it did not hold, the room is new: main.js with the welcome text is its
\* only file and its active file, and it has no users, cursors, history or
\* chat.  The join adds the caller to that room and changes nothing else of
\* it, so that a join to a known room finds the files, the chat and the
\* users that earlier events left.
C32_GetOrCreate ==
    [][\A c \in Conns, r \in RoomIds :
          JoinRoom(c, r, "Al")
          => LET reg == getOrCreateRoom(rooms, r, now)
             IN /\ DOMAIN reg = DOMAIN rooms \cup {r}
                /\ \A q \in DOMAIN rooms : reg[q] = rooms[q]
                /\ r \notin DOMAIN rooms
                   => /\ DOMAIN reg[r].files = {MainJs}
                      /\ reg[r].files[MainJs].content = WelcomeContent
                      /\ reg[r].activeFile = MainJs
                      /\ reg[r].users = EmptyObject
                      /\ reg[r].cursors = EmptyObject
                      /\ reg[r].history = <<>>
                      /\ reg[r].chat = <<>>
                /\ rooms'[r].files = reg[r].files
                /\ rooms'[r].activeFile = reg[r].activeFile
                /\ rooms'[r].chat = reg[r].chat
                /\ rooms'[r].history = reg[r].history
                /\ rooms'[r].cursors = reg[r].cursors
                /\ DOMAIN rooms'[r].users = DOMAIN reg[r].users \cup {c}
                /\ \A d \in DOMAIN reg[r].users \ {c} :
                      rooms'[r].users[d] = reg[r].users[d]]_vars

\* a connection has joined a room in which another user, a created file and
\* a chat message are found
C32_Witness ==
    /\ LastHandled("join-room")
    /\ DOMAIN rooms[last.roomId].users \ {last.conn} # {}
    /\ "a.js" \in DOMAIN rooms[last.roomId].files
    /\ rooms[last.roomId].chat # <<>>

\* the file that a code-change of connection a, naming no file, overwrites
CodeChangeTarget(a) == rooms[currentRoom[a]].activeFile

\* the file of the latest code-change of connection a in its room, if any
LatestFileOf(a) ==
    LET h == allHistory[currentRoom[a]]
        mine == {i \in 1..Len(h) : h[i].operation.userId = a}
    IN IF mine = {} THEN Null
       ELSE h[CHOOSE i \in mine : \A j \in mine : j <= i].file

\* C33: a switch-file of connection b changes the active file for b only:
\* for every other member a of the room whose latest code-change went to the
\* file that its next one would overwrite, the switch of b leaves that file
\* the one that the next code-change of a overwrites.
C33_SwitchIsPerSession ==
    [][\A b \in Conns, f \in FileNames :
          HasRoom(b) /\ SwitchFile(b, f)
          => \A a \in Members(currentRoom[b]) \ {b} :
                LatestFileOf(a) = CodeChangeTarget(a)
                => CodeChangeTarget(a)' = CodeChangeTarget(a)]_vars

\* C34: every code-update that a code-change of the draft sends to the other
\* members of the room tells of a change that was made: the files of the room
\* hold the file it names, with the content it carries.
C34_UpdateOnlyWhenApplied ==
    LastHandled("code-change")
    => \A m \in emitted :
          m.event = "code-update"
          => /\ m.data.fileName \in DOMAIN LastRoom.files
             /\ LastRoom.files[m.data.fileName].content = m.data.content

\* C35: a room whose joiners have all disconnected is not in the registry.
\* Every joiner of every room is a connection, so when every connection is
\* disconnected the registry is empty.
C35_NoRoomOutlivesItsJoiners ==
    (\A c \in Conns : status[c] = "disconnected") => rooms = EmptyObject

\* C36: in every room the keys of the cursors map are keys of the users map.
C36_CursorsOfUsers ==
    \A r \in DOMAIN rooms : DOMAIN rooms[r].cursors \subseteq DOMAIN rooms[r].users

\* a connection has disconnected from a room in which another connection
\* keeps its cursor, and a cursor of the leaver is still held by a room
C36_Witness ==
    /\ LastHandled("disconnect")
    /\ currentRoom[last.conn] \in DOMAIN rooms
    /\ last.conn \notin DOMAIN LastRoom.users
    /\ DOMAIN LastRoom.cursors # {}
    /\ \E r \in DOMAIN rooms : last.conn \in DOMAIN rooms[r].cursors

\* C37: in a room with at most as many users as the palette has colors, no
\* two users have the same color.
C37_DistinctColors ==
    \A r \in DOMAIN rooms :
        UsersSize(rooms[r]) <= Len(userColors)
        => \A c, d \in DOMAIN rooms[r].users :
              c # d => rooms[r].users[c].color # rooms[r].users[d].color

\* C38: no two activations of autoSave are suspended on a write of a snapshot
\* of the same room at the same time.
C38_OneWriteInFlight ==
    \A s, t \in SweepIds :
        s # t /\ sweeps[s].pc = "write" /\ sweeps[t].pc = "write"
        => sweeps[s].room # sweeps[t].room

\* C39: every snapshot on disk holds main.js and names one of its files as the
\* active file.  The snapshot that an activation of autoSave is to write is
\* made when the activation reaches the room, from the files, the active file
\* and the number of users that the room has at that moment; it stays as it
\* is while the write is pending, whatever events are handled meanwhile, and
\* it is what a write that succeeds puts on disk.
C39_SnapshotIsOneImage ==
    /\ [](\A r \in DOMAIN disk :
            /\ MainJs \in DOMAIN disk[r].files
            /\ disk[r].activeFile \in DOMAIN disk[r].files)
    /\ [][\A s \in SweepIds :
             /\ (MkdirDone(s, TRUE) \/ \E ok \in BOOLEAN : WriteDone(s, ok))
                /\ sweeps'[s].pc = "write"
                => LET r == sweeps'[s].room
                   IN /\ sweeps'[s].data.id = r
                      /\ sweeps'[s].data.files = rooms'[r].files
                      /\ sweeps'[s].data.activeFile = rooms'[r].activeFile
                      /\ sweeps'[s].data.userCount = UsersSize(rooms'[r])
             /\ sweeps[s].pc = "write" /\ ~(\E ok \in BOOLEAN : WriteDone(s, ok))
                => /\ sweeps'[s].pc = "write"
                   /\ sweeps'[s].room = sweeps[s].room
                   /\ sweeps'[s].data = sweeps[s].data
                   /\ disk' = disk
             /\ WriteDone(s, TRUE)
                => disk' = MapSet(disk, sweeps[s].room, sweeps[s].data)]_vars

\* while the write of a snapshot is pending, its room, still in the registry,
\* has got another content of main.js and another number of users, and the
\* file that the snapshot names as active has been deleted
C39_Witness ==
    LET sw == sweeps["s1"]
    IN /\ sw.pc = "write"
       /\ sw.room \in DOMAIN rooms
       /\ ~sw.detached
       /\ sw.data.files[MainJs] # rooms[sw.room].files[MainJs]
       /\ sw.data.userCount # UsersSize(rooms[sw.room])
       /\ sw.data.activeFile \notin DOMAIN rooms[sw.room].files

\* the session events that act on the room of their connection
SessionEvents ==
    {"code-change", "cursor-change", "switch-file", "create-file", "delete-file",
     "chat-message"}

\* C40: a code-change, cursor-change, switch-file, create-file, delete-file
\* or chat-message of a connection in room R leaves every other room of the
\* registry in the registry, with its files, active file, history, chat,
\* users and cursors as they were.  (The step of a handler records its event
\* and its connection in last.)
C40_RoomsIsolated ==
    [][last'.event \in SessionEvents
          => \A q \in DOMAIN rooms \ {currentRoom[last'.conn]} :
                /\ q \in DOMAIN rooms'
                /\ rooms'[q] = rooms[q]]_vars

\* a connection has had an event handled that changed its room while another
\* room, with a user, a file and a cursor of its own, is in the registry
C40_Witness ==
    /\ last.event \in {"code-change", "chat-message", "delete-file"}
    /\ last.outcome = "ok"
    /\ \E q \in DOMAIN rooms \ {currentRoom[last.conn]} :
          /\ DOMAIN rooms[q].cursors # {}
          /\ "a.js" \in DOMAIN rooms[q].files
          /\ rooms[q].chat # <<>>
          /\ rooms[q] # [LastRoom EXCEPT !.id = q]

====
